---------------------------- MODULE Spec2Model ----------------------------
(***************************************************************************)
(* Slicing-tree floorplanning: NPE validation (isValidNPE), tree           *)
(* construction from an NPE (generateTree), and minimum-area evaluation    *)
(* with shape curves (SNode::calcMinArea, SNode::addToDimensions).         *)
(*                                                                         *)
(* Numbers.  The program computes with float.  Every cell used here has an *)
(* area and an aspect ratio whose product is a perfect square and whose    *)
(* height divides the area, so sqrt, /, +, * and the comparisons are exact *)
(* in float and are modelled by integer arithmetic.                        *)
(*                                                                         *)
(* Pointers.  SNode* is a record [kind, idx]: "op" indexes the operators   *)
(* list, "cell" indexes the cells list, "null" is NULL.                    *)
(* std::list<Dimensions> is a sequence of list nodes [addr, d]; an         *)
(* iterator is the addr of the node it points to, unique within its list.  *)
(***************************************************************************)
EXTENDS Integers, Sequences, FiniteSets, TLC

\* Longest NPE string handed to cost.
MaxLen == 7
\* Longest NPE string in which an operand character may occur twice.
MaxRepeatLen == 4
\* Largest value an indeterminate float read may be observed as.
MaxIndeterminate == 1

VARIABLES cells, npe, operators, current, currentChar, root, pc, thrown,
          result, lookups

vars == <<cells, npe, operators, current, currentChar, root, pc, thrown,
          result, lookups>>

----------------------------------------------------------------------------
(* Characters *)

CutChars == {"V", "H"}
OperandChars == {"A", "B", "C", "D"}
Alphabet == OperandChars \cup CutChars

IsCut(c) == c \in CutChars

----------------------------------------------------------------------------
(* SNode.h: Dimensions, SNode and its constructors *)

NULL == [kind |-> "null", idx |-> 0]
OpPtr(i) == [kind |-> "op", idx |-> i]
CellPtr(k) == [kind |-> "cell", idx |-> k]

\* A default-constructed std::list iterator (points into no list).
Singular == 0

\* Dimensions whose floats were never assigned; no code path reads them.
Indeterminate ==
  [height |-> 0, width |-> 0, rSelected |-> Singular, lSelected |-> Singular]

\* sqrt on the perfect squares the cells below produce.
Sqrt(x) == CHOOSE r \in 0..x : r * r = x

ListNode(a, dim) == [addr |-> a, d |-> dim]

calcWandH(area, aspectRatio, fixed) ==
  LET h == Sqrt(aspectRatio * area)
      w == area \div h
      size == [height |-> h, width |-> w,
               rSelected |-> Singular, lSelected |-> Singular]
      swapped == [size EXCEPT !.height = w, !.width = h]
  IN  IF fixed THEN <<ListNode(1, size)>>
      ELSE <<ListNode(1, size), ListNode(2, swapped)>>

SNodeCell(name, area, aspectRatio, fixed) ==
  [isOperator |-> FALSE, fixed |-> fixed, name |-> name, area |-> area,
   aspectRatio |-> <<aspectRatio, 1>>,
   sizes |-> calcWandH(area, aspectRatio, fixed),
   selected |-> Indeterminate,
   right |-> NULL, left |-> NULL, parent |-> NULL]

SNodeOperator(name) ==
  [isOperator |-> TRUE, fixed |-> TRUE, name |-> name, area |-> 0,
   aspectRatio |-> <<0, 1>>,
   sizes |-> <<>>,
   selected |-> Indeterminate,
   right |-> NULL, left |-> NULL, parent |-> NULL]

----------------------------------------------------------------------------
(* Cell inputs: the records a cell file holds, one list per file.  The     *)
(* fixed flag is the fourth constructor argument (false when read by       *)
(* getCells).                                                              *)

CellLine(n, a, r, f) == [name |-> n, area |-> a, aspectRatio |-> r, fixed |-> f]

InputFiles ==
  << << CellLine("A", 4, 1, FALSE), CellLine("B", 4, 4, FALSE),
        CellLine("C", 12, 3, FALSE), CellLine("D", 2, 2, FALSE) >>,
     << CellLine("A", 4, 1, TRUE), CellLine("B", 4, 4, FALSE),
        CellLine("C", 8, 2, TRUE) >> >>

getCells(file) ==
  [k \in 1..Len(file) |->
     SNodeCell(file[k].name, file[k].area, file[k].aspectRatio, file[k].fixed)]

----------------------------------------------------------------------------
(* isValidNPE *)

RECURSIVE ValidLoop(_, _, _, _)
ValidLoop(s, i, operands, ops) ==
  IF i > Len(s) THEN ops = operands - 1
  ELSE
    LET isOp == IsCut(s[i])
        repeatOp == isOp /\ i + 1 <= Len(s) /\ s[i] = s[i + 1]
        repeatOperand == ~isOp /\ \E k \in (i + 1)..Len(s) : s[k] = s[i]
        operands1 == IF isOp THEN operands ELSE operands + 1
        ops1 == IF isOp THEN ops + 1 ELSE ops
    IN  IF repeatOp THEN FALSE
        ELSE IF repeatOperand THEN FALSE
        ELSE IF operands1 <= ops1 THEN FALSE
        ELSE ValidLoop(s, i + 1, operands1, ops1)

\* Mutant: the balloting property is tested at the end only, not per prefix.
RECURSIVE ValidLoopNoBallot(_, _, _, _)
ValidLoopNoBallot(s, i, operands, ops) ==
  IF i > Len(s) THEN ops = operands - 1
  ELSE
    LET isOp == IsCut(s[i])
        repeatOp == isOp /\ i + 1 <= Len(s) /\ s[i] = s[i + 1]
        repeatOperand == ~isOp /\ \E k \in (i + 1)..Len(s) : s[k] = s[i]
    IN  IF repeatOp \/ repeatOperand THEN FALSE
        ELSE ValidLoopNoBallot(s, i + 1,
                               IF isOp THEN operands ELSE operands + 1,
                               IF isOp THEN ops + 1 ELSE ops)

isValidNPE_NoBallot(s) == ValidLoopNoBallot(s, 1, 0, 0)

isValidNPE(s) == ValidLoop(s, 1, 0, 0)

----------------------------------------------------------------------------
(* NPE inputs *)

\* The strings of length k.
Strings(k) == [1..k -> Alphabet]

NoRepeatedOperand(s) ==
  \A i, j \in 1..Len(s) : (i < j /\ ~IsCut(s[i])) => s[i] # s[j]

\* The strings handed to cost: every string up to MaxRepeatLen, and up to
\* MaxLen every string in which no operand repeats.
IsNpeInput(s) == Len(s) <= MaxRepeatLen \/ NoRepeatedOperand(s)

----------------------------------------------------------------------------
(* cost / generateTree, one action per step of the code *)

Init ==
  /\ \E f \in 1..Len(InputFiles) : cells = getCells(InputFiles[f])
  /\ npe = <<>>
  /\ operators = <<>>
  /\ current = NULL
  /\ currentChar = 0
  /\ root = NULL
  /\ pc = "idle"
  /\ thrown = ""
  /\ result = 0
  /\ lookups = 0

\* cost(npe, cells): the local operators list is constructed empty and
\* generateTree is entered (operators.clear()).
Cost(s) ==
  /\ pc = "idle"
  /\ npe' = s
  /\ operators' = <<>>
  /\ pc' = "generateTree"
  /\ UNCHANGED <<cells, current, currentChar, root, thrown, result, lookups>>

\* if(!isValidNPE(npe)) throw "Invalid NPE!";
GenerateInvalid ==
  /\ pc = "generateTree"
  /\ ~isValidNPE(npe)
  /\ thrown' = "Invalid NPE!"
  /\ pc' = "thrown"
  /\ UNCHANGED <<cells, npe, operators, current, currentChar, root, result,
                 lookups>>

\* The last character becomes the root, built with the operator constructor.
\* currentChar is the index the reverse iterator points at; 0 is rend().
GenerateRoot ==
  /\ pc = "generateTree"
  /\ isValidNPE(npe)
  /\ operators' = <<SNodeOperator(npe[Len(npe)])>>
  /\ current' = OpPtr(1)
  /\ currentChar' = Len(npe) - 1
  /\ pc' = "loop"
  /\ UNCHANGED <<cells, npe, root, thrown, result, lookups>>

\* Mutant: the free slot is probed on left instead of right.
LoopOperatorLeftFirst ==
  /\ pc = "loop"
  /\ currentChar >= 1
  /\ IsCut(npe[currentChar])
  /\ LET n == Len(operators) + 1
         pushed == Append(operators, SNodeOperator(npe[currentChar]))
         cur == current.idx
     IN  operators' =
           IF pushed[cur].left # NULL
             THEN [pushed EXCEPT ![cur].right = OpPtr(n), ![n].parent = current]
             ELSE [pushed EXCEPT ![cur].left = OpPtr(n), ![n].parent = current]
  /\ current' = OpPtr(Len(operators) + 1)
  /\ currentChar' = currentChar - 1
  /\ UNCHANGED <<cells, npe, root, pc, thrown, result, lookups>>

\* Loop body, operator character: push the node, hang it under current
\* (right when free, else left), descend into it.
LoopOperator ==
  /\ pc = "loop"
  /\ currentChar >= 1
  /\ IsCut(npe[currentChar])
  /\ LET n == Len(operators) + 1
         pushed == Append(operators, SNodeOperator(npe[currentChar]))
         cur == current.idx
     IN  operators' =
           IF pushed[cur].right # NULL
             THEN [pushed EXCEPT ![cur].left = OpPtr(n), ![n].parent = current]
             ELSE [pushed EXCEPT ![cur].right = OpPtr(n), ![n].parent = current]
  /\ current' = OpPtr(Len(operators) + 1)
  /\ currentChar' = currentChar - 1
  /\ UNCHANGED <<cells, npe, root, pc, thrown, result, lookups>>

\* The cell search: child ends as the last cell of the list with that name.
FindCell(cs, c) ==
  LET hits == {k \in 1..Len(cs) : cs[k].name = c}
  IN  IF hits = {} THEN NULL
      ELSE CellPtr(CHOOSE k \in hits : \A m \in hits : m <= k)

\* Mutant: the upward walk is an if, one level only.
WalkUpOnce(ops, cur) ==
  IF cur # OpPtr(1) /\ ops[cur.idx].left # NULL
    THEN ops[cur.idx].parent
    ELSE cur

\* while ((current != &operators.front()) && (current->left))
\*    current = current->parent;
RECURSIVE WalkUp(_, _)
WalkUp(ops, cur) ==
  IF cur # OpPtr(1) /\ ops[cur.idx].left # NULL
    THEN WalkUp(ops, ops[cur.idx].parent)
    ELSE cur

\* Mutant: the operand branch sets the child's parent, as the operator
\* branch does, and so writes into the cell.
LoopOperandSetsParent ==
  /\ pc = "loop"
  /\ currentChar >= 1
  /\ ~IsCut(npe[currentChar])
  /\ LET child == FindCell(cells, npe[currentChar])
         cur == current.idx
     IN  /\ child # NULL
         /\ cells' = [cells EXCEPT ![child.idx].parent = current]
         /\ IF operators[cur].right # NULL
              THEN LET ops1 == [operators EXCEPT ![cur].left = child]
                   IN  /\ operators' = ops1
                       /\ current' = WalkUp(ops1, current)
              ELSE /\ operators' = [operators EXCEPT ![cur].right = child]
                   /\ current' = current
  /\ lookups' = lookups + 1
  /\ currentChar' = currentChar - 1
  /\ UNCHANGED <<npe, root, pc, thrown, result>>

\* Loop body, operand character with a cell.
LoopOperand ==
  /\ pc = "loop"
  /\ currentChar >= 1
  /\ ~IsCut(npe[currentChar])
  /\ LET child == FindCell(cells, npe[currentChar])
         cur == current.idx
     IN  /\ child # NULL
         /\ IF operators[cur].right # NULL
              THEN LET ops1 == [operators EXCEPT ![cur].left = child]
                   IN  /\ operators' = ops1
                       /\ current' = WalkUp(ops1, current)
              ELSE /\ operators' = [operators EXCEPT ![cur].right = child]
                   /\ current' = current
  /\ lookups' = lookups + 1
  /\ currentChar' = currentChar - 1
  /\ UNCHANGED <<cells, npe, root, pc, thrown, result>>

\* Loop body, operand character without a cell: throw "Cell data not valid!".
LoopOperandMissing ==
  /\ pc = "loop"
  /\ currentChar >= 1
  /\ ~IsCut(npe[currentChar])
  /\ FindCell(cells, npe[currentChar]) = NULL
  /\ lookups' = lookups + 1
  /\ thrown' = "Cell data not valid!"
  /\ pc' = "thrown"
  /\ UNCHANGED <<cells, npe, operators, current, currentChar, root, result>>

\* return &operators.front();
GenerateReturn ==
  /\ pc = "loop"
  /\ currentChar = 0
  /\ root' = OpPtr(1)
  /\ pc' = "calcMinArea"
  /\ UNCHANGED <<cells, npe, operators, current, currentChar, thrown, result,
                 lookups>>

----------------------------------------------------------------------------
(* SNode::addToDimensions, SNode::calcMinArea *)

Deref(ops, p) == IF p.kind = "op" THEN ops[p.idx] ELSE cells[p.idx]

\* The while loop over the list: kept is what the scan has passed and not
\* erased, rest is what lies ahead of item.
RECURSIVE AddScan(_, _, _)
AddScan(kept, rest, nDimension) ==
  IF rest = <<>> THEN [ret |-> TRUE, sizes |-> kept]
  ELSE
    LET item == Head(rest).d
    IN  IF nDimension.height = item.height /\ nDimension.width = item.width
          THEN [ret |-> FALSE, sizes |-> kept \o rest]
        ELSE IF item.height <= nDimension.height
                /\ item.width <= nDimension.width
          THEN [ret |-> FALSE, sizes |-> kept \o rest]
        ELSE IF item.height >= nDimension.height
                /\ item.width >= nDimension.width
          THEN AddScan(kept, Tail(rest), nDimension)
        ELSE AddScan(Append(kept, Head(rest)), Tail(rest), nDimension)

\* Mutant: a candidate is also dropped when an item is merely narrower.
RECURSIVE AddScanWidthOnly(_, _, _)
AddScanWidthOnly(kept, rest, nDimension) ==
  IF rest = <<>> THEN [ret |-> TRUE, sizes |-> kept]
  ELSE
    LET item == Head(rest).d
    IN  IF nDimension.height = item.height /\ nDimension.width = item.width
          THEN [ret |-> FALSE, sizes |-> kept \o rest]
        ELSE IF item.width <= nDimension.width
          THEN [ret |-> FALSE, sizes |-> kept \o rest]
        ELSE IF item.height >= nDimension.height
                /\ item.width >= nDimension.width
          THEN AddScanWidthOnly(kept, Tail(rest), nDimension)
        ELSE AddScanWidthOnly(Append(kept, Head(rest)), Tail(rest), nDimension)

addToDimensionsWidthOnly(sizes, nDimension, a) ==
  LET scan == AddScanWidthOnly(<<>>, sizes, nDimension)
  IN  IF scan.ret
        THEN [ret |-> TRUE, sizes |-> Append(scan.sizes, ListNode(a, nDimension))]
        ELSE scan

\* a is the address of the list node push_back allocates.
addToDimensions(sizes, nDimension, a) ==
  LET scan == AddScan(<<>>, sizes, nDimension)
  IN  IF scan.ret
        THEN [ret |-> TRUE, sizes |-> Append(scan.sizes, ListNode(a, nDimension))]
        ELSE scan

Max(a, b) == IF a >= b THEN a ELSE b

\* Mutant: the two back-pointers are stored the wrong way round.
nSizeSwapped(name, i, j) ==
  IF name = "V"
    THEN [width |-> i.d.width + j.d.width,
          height |-> Max(i.d.height, j.d.height),
          rSelected |-> j.addr, lSelected |-> i.addr]
    ELSE [width |-> Max(i.d.width, j.d.width),
          height |-> i.d.height + j.d.height,
          rSelected |-> j.addr, lSelected |-> i.addr]

\* nSize for the pair (i, j): i iterates right->sizes, j iterates left->sizes.
nSize(name, i, j) ==
  IF name = "V"
    THEN [width |-> i.d.width + j.d.width,
          height |-> Max(i.d.height, j.d.height),
          rSelected |-> i.addr, lSelected |-> j.addr]
    ELSE [width |-> Max(i.d.width, j.d.width),
          height |-> i.d.height + j.d.height,
          rSelected |-> i.addr, lSelected |-> j.addr]

\* The two nested for loops; the pair (i, j) allocates node (i-1)*|ls| + j.
RECURSIVE MergeLoop(_, _, _, _, _, _)
MergeLoop(name, rs, ls, i, j, sizes) ==
  IF i > Len(rs) THEN sizes
  ELSE IF j > Len(ls) THEN MergeLoop(name, rs, ls, i + 1, 1, sizes)
  ELSE MergeLoop(name, rs, ls, i, j + 1,
         addToDimensions(sizes, nSize(name, rs[i], ls[j]),
                         (i - 1) * Len(ls) + j).sizes)

\* Mutant: <= in place of <, so the last of several minima wins.
RECURSIVE BestLoopLast(_, _, _)
BestLoopLast(sizes, k, best) ==
  IF k > Len(sizes) THEN best
  ELSE IF sizes[k].d.height * sizes[k].d.width
          <= sizes[best].d.height * sizes[best].d.width
    THEN BestLoopLast(sizes, k + 1, k)
    ELSE BestLoopLast(sizes, k + 1, best)

\* "Calculate best area": index of best after scanning from position k.
RECURSIVE BestLoop(_, _, _)
BestLoop(sizes, k, best) ==
  IF k > Len(sizes) THEN best
  ELSE IF sizes[k].d.height * sizes[k].d.width
          < sizes[best].d.height * sizes[best].d.width
    THEN BestLoop(sizes, k + 1, k)
    ELSE BestLoop(sizes, k + 1, best)

\* calcMinArea on operator node n of the heap ops; the heap afterwards.
RECURSIVE calcMinArea(_, _)
calcMinArea(ops, n) ==
  LET cleared == [ops EXCEPT ![n].sizes = <<>>]
      r == cleared[n].right
      l == cleared[n].left
      afterRight == IF Deref(cleared, r).isOperator
                      THEN calcMinArea(cleared, r.idx) ELSE cleared
      afterLeft == IF Deref(afterRight, l).isOperator
                     THEN calcMinArea(afterRight, l.idx) ELSE afterRight
      sizes == MergeLoop(afterLeft[n].name, Deref(afterLeft, r).sizes,
                         Deref(afterLeft, l).sizes, 1, 1, <<>>)
      best == sizes[BestLoop(sizes, 1, 1)].d
  IN  [afterLeft EXCEPT ![n].sizes = sizes,
                        ![n].area = best.height * best.width,
                        ![n].selected = best,
                        ![n].aspectRatio = <<best.height, best.width>>]

\* Some operator node below n (n included) has a NULL child, which
\* calcMinArea dereferences.
RECURSIVE DerefsNull(_, _)
DerefsNull(ops, n) ==
  \/ ops[n].right = NULL
  \/ ops[n].left = NULL
  \/ ops[n].right.kind = "op" /\ DerefsNull(ops, ops[n].right.idx)
  \/ ops[n].left.kind = "op" /\ DerefsNull(ops, ops[n].left.idx)

\* return root->calcMinArea();
CalcMinArea ==
  /\ pc = "calcMinArea"
  /\ ~DerefsNull(operators, root.idx)
  /\ operators' = calcMinArea(operators, root.idx)
  /\ result' = operators'[root.idx].area
  /\ pc' = "returned"
  /\ UNCHANGED <<cells, npe, current, currentChar, root, thrown, lookups>>

\* root->calcMinArea() reading through a NULL child: undefined behaviour.
\* The read traps, or yields an indeterminate value and the call returns one.
CalcMinAreaNull ==
  /\ pc = "calcMinArea"
  /\ DerefsNull(operators, root.idx)
  /\ \/ /\ pc' = "crashed"
        /\ result' = result
     \/ /\ pc' = "returned"
        /\ result' \in 0..MaxIndeterminate
  /\ UNCHANGED <<cells, npe, operators, current, currentChar, root, thrown,
                 lookups>>

\* cost returns or its exception reaches the caller: the locals of cost and
\* generateTree (the operators list with them) are gone.
Return ==
  /\ pc \in {"returned", "thrown"}
  /\ pc' = "idle"
  /\ npe' = <<>>
  /\ operators' = <<>>
  /\ current' = NULL
  /\ currentChar' = 0
  /\ root' = NULL
  /\ thrown' = ""
  /\ result' = 0
  /\ lookups' = 0
  /\ UNCHANGED cells

\* The caller's choice of NPE, made only where a call can start.
CostCall ==
  /\ pc = "idle"
  /\ \E k \in 0..MaxLen : \E s \in Strings(k) : IsNpeInput(s) /\ Cost(s)

Next ==
  \/ CostCall
  \/ GenerateInvalid
  \/ GenerateRoot
  \/ LoopOperator
  \/ LoopOperand
  \/ LoopOperandMissing
  \/ GenerateReturn
  \/ CalcMinArea
  \/ CalcMinAreaNull
  \/ Return

Spec == Init /\ [][Next]_vars

----------------------------------------------------------------------------
(* isValidNPE on its own: every string up to MaxValidLen is validated as   *)
(* generateTree validates it.                                              *)

\* Longest string handed to the validator alone.
MaxValidLen == 5

InitValid ==
  /\ cells = getCells(InputFiles[1])
  /\ \E k \in 0..MaxValidLen : npe \in Strings(k)
  /\ operators = <<>>
  /\ current = NULL
  /\ currentChar = 0
  /\ root = NULL
  /\ pc = "generateTree"
  /\ thrown = ""
  /\ result = 0
  /\ lookups = 0

NextValid ==
  \/ GenerateInvalid
  \/ GenerateRoot

SpecValid == InitValid /\ [][NextValid]_vars

----------------------------------------------------------------------------
(* operator<< *)

RECURSIVE OutputOf(_, _)
OutputOf(ops, p) ==
  LET rhs == Deref(ops, p)
  IN  IF rhs.isOperator
        THEN OutputOf(ops, rhs.left) \o OutputOf(ops, rhs.right) \o <<rhs.name>>
        ELSE <<rhs.name>>

----------------------------------------------------------------------------
(* Vocabulary of the properties *)

\* generateTree has returned a tree with at least one operator.
Built == pc \in {"calcMinArea", "returned"} /\ Len(npe) > 1

\* cost has returned for an NPE with at least one operator.
Evaluated == pc = "returned" /\ Len(npe) > 1

OpNodes == 1..Len(operators)

Area(dim) == dim.width * dim.height

CountCuts(s, k) == Cardinality({i \in 1..k : IsCut(s[i])})

\* The four conditions of a normalized Polish expression, stated per string.
WellFormed(s) ==
  /\ \A i, j \in 1..Len(s) : (i < j /\ ~IsCut(s[i])) => s[i] # s[j]
  /\ \A i \in 1..(Len(s) - 1) : IsCut(s[i]) => s[i + 1] # s[i]
  /\ \A k \in 1..Len(s) : k - CountCuts(s, k) > CountCuts(s, k)
  /\ CountCuts(s, Len(s)) = (Len(s) - CountCuts(s, Len(s))) - 1

\* A tree as a value: <<name>> for a leaf, <<name, left, right>> for an
\* operator, <<>> for a missing child.
RECURSIVE TreeOf(_, _)
TreeOf(ops, p) ==
  IF p = NULL THEN <<>>
  ELSE IF p.kind = "cell" THEN <<cells[p.idx].name>>
  ELSE <<ops[p.idx].name, TreeOf(ops, ops[p.idx].left),
         TreeOf(ops, ops[p.idx].right)>>

\* Stack-based postfix construction, scanning left to right.  An operator
\* pops two trees; recentIsLeft says which child the most recently pushed
\* one becomes.
RECURSIVE StackBuild(_, _, _, _)
StackBuild(s, i, stack, recentIsLeft) ==
  IF i > Len(s) THEN stack
  ELSE IF ~IsCut(s[i])
    THEN StackBuild(s, i + 1, <<<<s[i]>>>> \o stack, recentIsLeft)
  ELSE
    LET recent == stack[1]
        earlier == stack[2]
        node == IF recentIsLeft THEN <<s[i], recent, earlier>>
                ELSE <<s[i], earlier, recent>>
    IN  StackBuild(s, i + 1, <<node>> \o SubSeq(stack, 3, Len(stack)),
                   recentIsLeft)

PostfixTree(s, recentIsLeft) == StackBuild(s, 1, <<>>, recentIsLeft)[1]

\* Every (width, height) a subtree can take: one point of each leaf's curve,
\* combined bottom-up by the cut rules, nothing pruned.
RECURSIVE Realizations(_, _)
Realizations(ops, p) ==
  IF p.kind = "cell"
    THEN {<<cells[p.idx].sizes[k].d.width, cells[p.idx].sizes[k].d.height>> :
            k \in 1..Len(cells[p.idx].sizes)}
  ELSE
    LET R == Realizations(ops, ops[p.idx].right)
        L == Realizations(ops, ops[p.idx].left)
    IN  IF ops[p.idx].name = "V"
          THEN {<<r[1] + l[1], Max(r[2], l[2])>> : r \in R, l \in L}
          ELSE {<<Max(r[1], l[1]), r[2] + l[2]>> : r \in R, l \in L}

MinOf(S) == CHOOSE a \in S : \A b \in S : a <= b

\* No entry of the list is weakly dominated by an entry at another position.
StrictPareto(sizes) ==
  \A i, j \in 1..Len(sizes) :
    i # j => ~(sizes[i].d.width <= sizes[j].d.width
               /\ sizes[i].d.height <= sizes[j].d.height)

\* The iterator a points at exactly one node of the list.
PointsInto(sizes, a) == Cardinality({k \in 1..Len(sizes) : sizes[k].addr = a}) = 1

At(sizes, a) == sizes[CHOOSE k \in 1..Len(sizes) : sizes[k].addr = a].d

\* dim, a point of operator node n, points into both child curves and is the
\* cut-rule combination of the two points it names.
BackPointersOk(ops, n, dim) ==
  LET rs == Deref(ops, ops[n].right).sizes
      ls == Deref(ops, ops[n].left).sizes
  IN  /\ PointsInto(rs, dim.rSelected)
      /\ PointsInto(ls, dim.lSelected)
      /\ LET r == At(rs, dim.rSelected)
             l == At(ls, dim.lSelected)
         IN  IF ops[n].name = "V"
               THEN /\ dim.width = r.width + l.width
                    /\ dim.height = Max(r.height, l.height)
               ELSE /\ dim.width = Max(r.width, l.width)
                    /\ dim.height = r.height + l.height

\* The leaf points the chain from dim (a point of node p) ends at, as
\* <<cell index, iterator>> pairs.
RECURSIVE ChainLeaves(_, _, _)
ChainLeaves(ops, p, a) ==
  IF p.kind = "cell" THEN {<<p.idx, a>>}
  ELSE LET dim == At(ops[p.idx].sizes, a)
       IN  ChainLeaves(ops, ops[p.idx].right, dim.rSelected)
             \cup ChainLeaves(ops, ops[p.idx].left, dim.lSelected)

\* The dimensions the chain below a point recombines to.
RECURSIVE Recombined(_, _, _)
Recombined(ops, p, a) ==
  IF p.kind = "cell"
    THEN LET d == At(cells[p.idx].sizes, a) IN <<d.width, d.height>>
  ELSE
    LET dim == At(ops[p.idx].sizes, a)
        r == Recombined(ops, ops[p.idx].right, dim.rSelected)
        l == Recombined(ops, ops[p.idx].left, dim.lSelected)
    IN  IF ops[p.idx].name = "V"
          THEN <<r[1] + l[1], Max(r[2], l[2])>>
          ELSE <<Max(r[1], l[1]), r[2] + l[2]>>

OperandsOf(s) == {s[i] : i \in {k \in 1..Len(s) : ~IsCut(s[k])}}

----------------------------------------------------------------------------
(* Properties *)

\* C1: for a valid NPE with at least one operator whose operands all have
\* cells, the value cost returns is the least width * height over every
\* realization of the tree; pruning loses nothing.
C1_MinOverAllRealizations ==
  Evaluated =>
    result = MinOf({x[1] * x[2] : x \in Realizations(operators, root)})

\* Reached: a four-leaf tree whose root curve is smaller than its set of
\* realizations, so points were pruned on the way.
C1_Witness ==
  /\ Evaluated
  /\ Len(npe) = 7
  /\ Len(operators[1].sizes) < Cardinality(Realizations(operators, root))

\* C2: isValidNPE accepts a string exactly when no operand repeats, no
\* operator is followed by itself, every prefix has more operands than
\* operators, and operators = operands - 1; the empty string is rejected.
C2_ValidIffWellFormed ==
  /\ pc = "thrown" => ~WellFormed(npe)
  /\ pc = "loop" => WellFormed(npe)
  /\ npe = <<>> => pc # "loop"

\* Reached: a five-character string has been accepted.
C2_Witness == pc = "loop" /\ Len(npe) = 5 /\ thrown = ""

\* C3: every curve is a strict Pareto frontier: the sizes of every cell,
\* and after calcMinArea of every operator node, hold no two entries at
\* different positions of which one is <= the other in width and height.
C3_EveryCurveStrictPareto ==
  /\ \A k \in 1..Len(cells) : StrictPareto(cells[k].sizes)
  /\ Evaluated => \A n \in OpNodes : StrictPareto(operators[n].sizes)

\* C4: an NPE of one operand whose cell exists is accepted, build returns
\* the leaf of that cell as root, and cost returns the cell's
\* width * height; no missing child is dereferenced.
C4_SingleOperandIsItsLeaf ==
  (pc # "idle" /\ Len(npe) = 1 /\ FindCell(cells, npe[1]) # NULL) =>
    /\ pc \notin {"thrown", "crashed"}
    /\ pc \in {"calcMinArea", "returned"} =>
         /\ root = FindCell(cells, npe[1])
         /\ ~(root.kind = "op" /\ DerefsNull(operators, root.idx))
    /\ pc = "returned" =>
         result = Area(cells[FindCell(cells, npe[1]).idx].sizes[1].d)

\* C5: build fails exactly when isValidNPE is false or an operand names no
\* cell, and returns a root otherwise; an invalid NPE fails with the
\* invalid-expression failure before any node is created or cell looked up.
C5_FailsExactlyWhenInvalidOrUnknown ==
  LET unknown == \E c \in OperandsOf(npe) : FindCell(cells, c) = NULL
  IN  /\ pc = "thrown" => (~isValidNPE(npe) \/ unknown)
      /\ pc \in {"calcMinArea", "returned", "crashed"} =>
           (isValidNPE(npe) /\ ~unknown)
      /\ (pc = "thrown" /\ ~isValidNPE(npe)) =>
           (thrown = "Invalid NPE!" /\ operators = <<>> /\ lookups = 0)

\* C6: the tree build returns is the tree of the stack-based postfix
\* construction in which the most recently completed subexpression becomes
\* the left child and the one completed before it the right child.
C6_RecentIsLeft ==
  Built => TreeOf(operators, root) = PostfixTree(npe, TRUE)

\* C6, as amended: the tree build returns is the tree of the stack-based
\* postfix construction with the two roles exchanged: the most recently
\* completed subexpression is the right child, the one before it the left.
C6_RecentIsRight ==
  Built => TreeOf(operators, root) = PostfixTree(npe, FALSE)

\* Reached: a built tree in which an operator below the root has an
\* operator as its left child, so that completing it walks up two levels.
C6_Witness ==
  /\ Built
  /\ \E n \in OpNodes : n # 1 /\ operators[n].left.kind = "op"

\* C7: after calcMinArea, every point of every operator's curve, and its
\* selected point, points into the right and the left child's current curve
\* and is the cut-rule combination of the two points; the chain from the
\* root's selected point ends at one point of each leaf's curve, and those
\* recombine to the root's selected width and height.
C7_BackPointersValid ==
  Evaluated =>
    /\ \A n \in OpNodes :
         /\ \A k \in 1..Len(operators[n].sizes) :
              BackPointersOk(operators, n, operators[n].sizes[k].d)
         /\ BackPointersOk(operators, n, operators[n].selected)
    /\ LET sel == operators[root.idx].selected
           r == operators[root.idx].right
           l == operators[root.idx].left
           leaves == ChainLeaves(operators, r, sel.rSelected)
                       \cup ChainLeaves(operators, l, sel.lSelected)
           rd == Recombined(operators, r, sel.rSelected)
           ld == Recombined(operators, l, sel.lSelected)
       IN  /\ {cells[x[1]].name : x \in leaves} = OperandsOf(npe)
           /\ Cardinality(leaves) = Cardinality(OperandsOf(npe))
           /\ \A x \in leaves : PointsInto(cells[x[1]].sizes, x[2])
           /\ IF operators[root.idx].name = "V"
                THEN /\ sel.width = rd[1] + ld[1]
                     /\ sel.height = Max(rd[2], ld[2])
                ELSE /\ sel.width = Max(rd[1], ld[1])
                     /\ sel.height = rd[2] + ld[2]

\* Reached: an evaluated four-leaf tree whose selected root point names a
\* point of the right child's curve other than the one of the left child's.
C7_Witness ==
  /\ Evaluated
  /\ Len(npe) = 7
  /\ operators[1].selected.rSelected # operators[1].selected.lSelected

\* C8: after calcMinArea on an operator node, selected is a point of the
\* curve of least area, the first such point in list order, and area is
\* its width * height.
C8_SelectedIsFirstMinimum ==
  Evaluated =>
    \A n \in OpNodes :
      LET sizes == operators[n].sizes
          sel == operators[n].selected
      IN  /\ \E k \in 1..Len(sizes) :
               /\ sizes[k].d = sel
               /\ \A j \in 1..Len(sizes) : Area(sel) <= Area(sizes[j].d)
               /\ \A j \in 1..(k - 1) : Area(sel) < Area(sizes[j].d)
          /\ operators[n].area = Area(sel)

\* Reached: an evaluated node whose curve holds two points of the least
\* area.
C8_Witness ==
  /\ Evaluated
  /\ \E n \in OpNodes :
       \E j, k \in 1..Len(operators[n].sizes) :
         /\ j < k
         /\ Area(operators[n].sizes[j].d) = operators[n].area
         /\ Area(operators[n].sizes[k].d) = operators[n].area

\* C9: no step of any cost call, returning or failing, changes a cell, and
\* every call starts from the same local state, so that what a call returns
\* does not depend on the calls before it.
C9_CellsNeverChange ==
  [][/\ cells' = cells
     /\ pc' = "idle" =>
          /\ npe' = <<>> /\ operators' = <<>> /\ current' = NULL
          /\ currentChar' = 0 /\ root' = NULL /\ thrown' = ""
          /\ result' = 0 /\ lookups' = 0]_vars

\* Reached: a call that failed on an unknown cell after it had hung cells
\* into a partly built tree.
C9_Witness ==
  /\ pc = "thrown"
  /\ thrown = "Cell data not valid!"
  /\ \E n \in OpNodes : operators[n].right.kind = "cell"

\* C10: in the tree generateTree returns every operator has both children,
\* and printing it (left, right, name) gives back the NPE.
C10_PrintRoundTrip ==
  Built =>
    /\ ~DerefsNull(operators, root.idx)
    /\ OutputOf(operators, root) = npe

\* Reached: a built balanced four-leaf tree.
C10_Witness ==
  /\ Built
  /\ Len(npe) = 7
  /\ operators[1].left.kind = "op"
  /\ operators[1].right.kind = "op"

=============================================================================
